---- MODULE Spec2Model ----
(***************************************************************************)
(* A model of src/main.py: the overlap detector find_best_overlap_height,  *)
(* the stitcher merge_images_vertically, the page fitter                   *)
(* resize_image_to_spec and the Tk handler ImageCombinerApp.process_images.*)
(*                                                                         *)
(* An image is a record [w, h, px]: px is the sequence of its h rows, a    *)
(* row the sequence of its w pixels, a pixel an <<r, g, b>> triple (both   *)
(* images are converted to RGB before any processing, main.py:117-120).    *)
(* Rows and columns are numbered from 1 here and from 0 in the source.     *)
(*                                                                         *)
(* Arithmetic.  The source computes in IEEE doubles.  int(m * 0.95) and    *)
(* int(0.01 * m) equal (m * 95) \div 100 and m \div 100 for every m below  *)
(* 200000, so they are modelled exactly.  Normalised SADs are compared as  *)
(* exact fractions.  int(t * (w / h)) and int(t / (w / h)) equal the exact *)
(* floor unless the exact quotient is an integer q, where the double       *)
(* rounding of w / h can give q - 1 (int(49 * (1 / 49)) = 0): see Trunc.   *)
(***************************************************************************)
EXTENDS Integers, Sequences, FiniteSets, TLC

VARIABLES
    pc,                \* position of the running operation
    img1, img2,        \* the decoded top and bottom images
    search_proportion, \* detect parameter, in percent
    step,              \* detect parameter
    sad_threshold,     \* detect parameter
    det,               \* what the detector computed (see Detect)
    overlap_h,         \* overlap height handed to the stitcher
    merged,            \* what the stitcher returned (see Stitch)
    target,            \* <<target_width_px, target_height_px>>
    fit,               \* what the page fitter computed (see Fit)
    notes,             \* notifications shown for the current request
    pending,           \* Process clicks waiting in Tk's event queue
    requests,          \* number of requests dispatched so far
    saved              \* TRUE when the current request wrote the file

vars == <<pc, img1, img2, search_proportion, step, sad_threshold, det,
          overlap_h, merged, target, fit, notes, pending, requests, saved>>

---------------------------------------------------------------------------
(* Bounds of the model.                                                    *)

\* tallest one-pixel-wide image enumerated exhaustively
MaxH == 6
\* tallest two-pixel-wide image enumerated exhaustively
MaxH2 == 2
\* largest image side and target side enumerated exhaustively for the fitter
MaxDim == 5
\* most Process clicks held in the event queue
MaxPending == 2
\* most requests dispatched in one behaviour
MaxRequests == 2

---------------------------------------------------------------------------
(* Constants of the program.                                               *)

DEFAULT_DPI == 300

\* int(8.5 * 300) = 2550, int(13 * 300) = 3900, int(14 * 300) = 4200
PAPER_SIZES == {<<(85 * DEFAULT_DPI) \div 10, 13 * DEFAULT_DPI>>,
                <<(85 * DEFAULT_DPI) \div 10, 14 * DEFAULT_DPI>>}

White == <<255, 255, 255>>
Black == <<0, 0, 0>>
Grey  == <<225, 225, 225>>

---------------------------------------------------------------------------
(* Helpers.                                                                *)

Min(a, b) == IF a < b THEN a ELSE b
Max(a, b) == IF a > b THEN a ELSE b
Abs(a) == IF a < 0 THEN -a ELSE a

None == [kind |-> "none"]

\* the image with the given rows
Image(w, rows) == [w |-> w, h |-> Len(rows), px |-> rows]

\* every w x h image over the colours cs
AllImages(w, h, cs) == {Image(w, p) : p \in [1..h -> [1..w -> cs]]}

\* the w x h image that is fg on rows r0..r1, columns c0..c1 (numbered from
\* 0, both ends included) and bg elsewhere
BandImage(w, h, r0, r1, c0, c1, fg, bg) ==
    Image(w, [r \in 1..h |-> [c \in 1..w |->
        IF r - 1 >= r0 /\ r - 1 <= r1 /\ c - 1 >= c0 /\ c - 1 <= c1
        THEN fg ELSE bg]])

---------------------------------------------------------------------------
(* find_best_overlap_height, main.py:34-103.                               *)

\* channels of an RGB array (nc1, main.py:42 and 50)
NumChannels == 3

\* sum over the channels of |a - b| for one pixel (main.py:85)
PixelSAD(p, q) == Abs(p[1] - q[1]) + Abs(p[2] - q[2]) + Abs(p[3] - q[3])

RECURSIVE RowSAD(_, _, _, _)
\* SAD of pixels lo..hi of two rows (the sum is split in halves to keep the
\* evaluation shallow)
RowSAD(r1, r2, lo, hi) ==
    IF lo > hi THEN 0
    ELSE IF lo = hi THEN PixelSAD(r1[lo], r2[lo])
    ELSE LET mid == (lo + hi) \div 2
         IN  RowSAD(r1, r2, lo, mid) + RowSAD(r1, r2, mid + 1, hi)

RECURSIVE StripRows(_, _, _, _, _, _)
\* SAD of rows lo..hi of the two strips of height oh, over the first cw
\* columns
StripRows(a, b, oh, cw, lo, hi) ==
    IF lo > hi THEN 0
    ELSE IF lo = hi THEN RowSAD(a.px[a.h - oh + lo], b.px[lo], 1, cw)
    ELSE LET mid == (lo + hi) \div 2
         IN  StripRows(a, b, oh, cw, lo, mid) + StripRows(a, b, oh, cw, mid + 1, hi)

\* sad of the bottom oh rows of a against the top oh rows of b, over the
\* first cw columns (main.py:73-85)
StripSAD(a, b, oh, cw) == StripRows(a, b, oh, cw, 1, oh)

\* search_range_max_h (main.py:61-63); prop is search_proportion in percent
SearchRangeMaxWhole(maxPossible, prop, st) ==
    Min(Max(st, maxPossible), maxPossible)
SearchRangeMax(maxPossible, prop, st) ==
    Min(Max(st, (maxPossible * prop) \div 100), maxPossible)

\* min_significant_overlap_px (main.py:94)
MinSignificantNoFloor(st, maxPossible) == Max(st, maxPossible \div 100)
MinSignificant(st, maxPossible) == Max(Max(st, 5), maxPossible \div 100)

\* norm_sad < min_norm_sad (main.py:88): acc is the running minimum, inf
\* while it is float('inf').  Both fractions have the factor
\* common_width * num_channels in their denominators, so sad / (oh * k) <
\* acc.num / (acc.best_oh * k) is compared as sad * acc.best_oh < acc.num * oh.
ImprovesNoTie(acc, sad, oh) == acc.inf \/ sad * acc.best_oh <= acc.num * oh
Improves(acc, sad, oh) == acc.inf \/ sad * acc.best_oh < acc.num * oh

\* one iteration of the loop over oh (main.py:71-90)
SearchBody(a, b, cw, oh, acc) ==
    LET sad == StripSAD(a, b, oh, cw)
        den == oh * cw * NumChannels
    IN  IF Improves(acc, sad, oh)
        THEN [inf |-> FALSE, num |-> sad, den |-> den, best_oh |-> oh]
        ELSE acc

RECURSIVE SearchLoop(_, _, _, _, _, _, _)
\* iterations lo..hi of for oh in range(step, search_range_max_h + 1, step)
\* (main.py:70), in order, iteration i having oh = i * step; the range is
\* run as its first half followed by its second half to keep the evaluation
\* shallow
SearchLoop(a, b, cw, st, lo, hi, acc) ==
    IF lo > hi THEN acc
    ELSE IF lo = hi THEN SearchBody(a, b, cw, lo * st, acc)
    ELSE LET mid == (lo + hi) \div 2
             first == SearchLoop(a, b, cw, st, lo, mid, acc)
         IN  \* the test is always true: it makes TLC finish the first half
             \* before it starts the second
             IF first.best_oh >= 0
             THEN SearchLoop(a, b, cw, st, mid + 1, hi, first)
             ELSE first

\* the acceptance test (main.py:98): TRUE when the best overlap is rejected
RejectsNoSadGate(acc, minSig, thr) == acc.best_oh < minSig
Rejects(acc, minSig, thr) ==
    acc.best_oh < minSig \/ acc.inf \/ acc.num > thr * acc.den

NoCandidate == [inf |-> TRUE, num |-> 0, den |-> 1, best_oh |-> 0]

\* find_best_overlap_height(a, b, prop / 100, st, thr): height is the value
\* returned; best_oh and num / den are best_oh and min_norm_sad when the
\* function ends; early is TRUE when it returned before the search
Detect(a, b, prop, st, thr) ==
    LET cw == Min(a.w, b.w)
        maxPossible == Min(a.h, b.h)
    IN  IF cw = 0 \/ maxPossible < st
        THEN [height |-> 0, early |-> TRUE, best_oh |-> 0,
              inf |-> TRUE, num |-> 0, den |-> 1]
        ELSE LET acc == SearchLoop(a, b, cw, st, 1,
                                   SearchRangeMax(maxPossible, prop, st) \div st,
                                   NoCandidate)
                 rej == Rejects(acc, MinSignificant(st, maxPossible), thr)
             IN  [height |-> IF rej THEN 0 ELSE acc.best_oh, early |-> FALSE,
                  best_oh |-> acc.best_oh,
                  inf |-> acc.inf, num |-> acc.num, den |-> acc.den]

---------------------------------------------------------------------------
(* merge_images_vertically from the computed overlap on, main.py:138-192.  *)

\* Image.new(mode, (w, h), colour)
NewImage(w, h, colour) == Image(w, [r \in 1..h |-> [c \in 1..w |-> colour]])

\* canvas.paste(im, (x, y))
Paste(canvas, im, x, y) ==
    Image(canvas.w, [r \in 1..canvas.h |-> [c \in 1..canvas.w |->
        IF r - y >= 1 /\ r - y <= im.h /\ c - x >= 1 /\ c - x <= im.w
        THEN im.px[r - y][c - x] ELSE canvas.px[r][c]]])

\* crop_y_start_img2 (main.py:143)
CropStartOneLess(overlap, h2) == Min(overlap, h2) - 1
CropStart(overlap, h2) == Min(overlap, h2)

\* im.crop((0, y, im.w, im.h)) (main.py:144)
CropFrom(im, y) == Image(im.w, SubSeq(im.px, y + 1, im.h))

\* the placeholder returned when both parts are empty (main.py:161)
Placeholder == NewImage(100, 100, White)

\* paste_x of a part narrower than final_width (main.py:175 and 182)
PadLeftCeil(final_width, w) == (final_width - w + 1) \div 2
PadLeft(final_width, w) == (final_width - w) \div 2

\* a part padded to final_width (main.py:173-184)
Padded(part, final_width) ==
    IF part.w < final_width
    THEN Paste(NewImage(final_width, part.h, White), part,
               PadLeft(final_width, part.w), 0)
    ELSE part

\* merged_height (main.py:186)
MergedHeightOfTop(top, bottom) == top.h
MergedHeight(top, bottom) == top.h + bottom.h

\* the combination of two non-empty parts (main.py:170-192)
Combine(top, bottom) ==
    LET final_width == Max(top.w, bottom.w)
        ptop == Padded(top, final_width)
        pbottom == Padded(bottom, final_width)
        canvas == NewImage(final_width, MergedHeight(ptop, pbottom), White)
    IN  Paste(Paste(canvas, ptop, 0, 0), pbottom, 0, ptop.h)

\* The stitcher: img is the image returned, branch the return statement
\* taken, warned whether messagebox.showwarning was shown (main.py:160),
\* bottom_h the height of bottom_part_pil
Stitch(a, b, overlap) ==
    LET top == a
        bottom == IF overlap > 0 THEN CropFrom(b, CropStart(overlap, b.h)) ELSE b
        res(im, br, wn) == [kind |-> "image", img |-> im, branch |-> br,
                            warned |-> wn, bottom_h |-> bottom.h]
    IN  IF overlap > 0 /\ bottom.h = 0 THEN res(a, "fully_overlapped", FALSE)
        ELSE IF top.h = 0 /\ bottom.h = 0 THEN res(Placeholder, "both_empty", TRUE)
        ELSE IF top.h = 0 THEN res(bottom, "top_empty", FALSE)
        ELSE IF bottom.h = 0 THEN res(top, "bottom_empty", FALSE)
        ELSE res(Combine(top, bottom), "combined", FALSE)

---------------------------------------------------------------------------
(* resize_image_to_spec, main.py:194-221.                                  *)

RECURSIVE GCD(_, _)
GCD(a, b) == IF b = 0 THEN a ELSE GCD(b, a % b)

RECURSIVE IsPow2(_)
IsPow2(n) == n = 1 \/ (n > 1 /\ n % 2 = 0 /\ IsPow2(n \div 2))

\* aspect_ratio = w / h (main.py:197) is an exact double when the reduced
\* denominator is a power of two
RatioExact(w, h) == IsPow2(h \div GCD(w, h))

\* The values int() can give for a double computed from aspect_ratio whose
\* exact value is num / den: the floor, or one less when the quotient is an
\* integer and aspect_ratio is a rounded double
Trunc(num, den, w, h) ==
    IF num % den = 0 /\ ~RatioExact(w, h)
    THEN {(num \div den) - 1, num \div den}
    ELSE {num \div den}

\* original_width / target_width_px > original_height / target_height_px
\* (main.py:200)
WidthLimitedFlipped(w, h, tw, th) == w * th < h * tw
WidthLimited(w, h, tw, th) == w * th > h * tw

\* paste_x, paste_y (main.py:217-218)
PasteOffset(t, n) == (t - n) \div 2

\* what resize_image_to_spec computes for a w x h image and a tw x th
\* target when the truncated dimension comes out as n
FitWith(w, h, tw, th, n) ==
    LET new_width == IF WidthLimited(w, h, tw, th) THEN tw ELSE n
        new_height == IF WidthLimited(w, h, tw, th) THEN n ELSE th
    IN  [kind |-> "fit", new_width |-> new_width, new_height |-> new_height,
         paste_x |-> PasteOffset(tw, new_width),
         paste_y |-> PasteOffset(th, new_height),
         final_w |-> tw, final_h |-> th]

\* the outcomes of resize_image_to_spec up to the call of image.resize
FitOutcomes(w, h, tw, th) ==
    {FitWith(w, h, tw, th, n) :
        n \in IF WidthLimited(w, h, tw, th)
              THEN Trunc(tw * h, w, w, h) ELSE Trunc(th * w, h, w, h)}

\* image.resize((new_width, new_height)) takes sizes of at least 1 x 1
ResizeValid(f) == f.new_width >= 1 /\ f.new_height >= 1

---------------------------------------------------------------------------
(* Inputs.                                                                 *)

\* the small images, enumerated exhaustively: one pixel wide up to MaxH
\* rows, two pixels wide up to MaxH2 rows, and the empty images the
\* source guards against (main.py:53, 146, 159-166)
SmallImages ==
    UNION ({AllImages(1, h, {White, Grey}) : h \in 0..MaxH}
           \cup {AllImages(2, h, {White, Grey}) : h \in 0..MaxH2}
           \cup {AllImages(0, h, {White, Grey}) : h \in 0..1})

\* a tall pair whose only exact match is the 5-row overlap: the top image is
\* white with one black row 5 rows above its end, the bottom image black
\* with white rows 1..4
TallTop == BandImage(1, 560, 555, 555, 0, 0, Black, White)
TallBottom == BandImage(1, 560, 1, 4, 0, 0, White, Black)

\* <<search_proportion in percent, step, sad_threshold>>: the call of
\* main.py:133-136 and a coarser search over the whole height
PipelineParams == <<95, 1, 25>>
DetectParams == {PipelineParams, <<100, 2, 20>>}

\* values of the variables an operation does not use
Idle ==
    /\ det = None /\ overlap_h = 0 /\ merged = None /\ target = <<0, 0>>
    /\ fit = None /\ notes = <<>> /\ pending = 0 /\ requests = 0
    /\ saved = FALSE

---------------------------------------------------------------------------
(* The detector called on its own.                                         *)

InitDetect ==
    /\ pc = "call"
    /\ \E p \in DetectParams :
           search_proportion = p[1] /\ step = p[2] /\ sad_threshold = p[3]
    /\ \E pair \in (SmallImages \X SmallImages) \cup {<<TallTop, TallBottom>>} :
           img1 = pair[1] /\ img2 = pair[2]
    /\ Idle

DetectCall ==
    /\ pc = "call"
    /\ det' = Detect(img1, img2, search_proportion, step, sad_threshold)
    /\ overlap_h' = det'.height
    /\ pc' = "done"
    /\ UNCHANGED <<img1, img2, search_proportion, step, sad_threshold, merged,
                   target, fit, notes, pending, requests, saved>>

NextDetect == DetectCall

SpecDetect == InitDetect /\ [][NextDetect]_vars

---------------------------------------------------------------------------
(* The stitcher called on its own, with any overlap height.                *)

\* images up to two pixels wide and MaxH2 rows high
NarrowImages ==
    UNION {AllImages(w, h, {White, Grey}) : w \in 0..2, h \in 0..MaxH2}

\* one-row grey images three and four pixels wide, for width differences
\* of up to four pixels
WideImages == {NewImage(w, 1, Grey) : w \in 3..4}

StitchImages == NarrowImages \cup WideImages

InitStitch ==
    /\ pc = "call"
    /\ img1 \in StitchImages /\ img2 \in StitchImages
    /\ overlap_h \in 0..(img2.h + 1)
    /\ search_proportion = 0 /\ step = 0 /\ sad_threshold = 0
    /\ det = None /\ merged = None /\ target = <<0, 0>> /\ fit = None
    /\ notes = <<>> /\ pending = 0 /\ requests = 0 /\ saved = FALSE

StitchCall ==
    /\ pc = "call"
    /\ merged' = Stitch(img1, img2, overlap_h)
    /\ pc' = "done"
    /\ UNCHANGED <<img1, img2, search_proportion, step, sad_threshold, det,
                   overlap_h, target, fit, notes, pending, requests, saved>>

NextStitch == StitchCall

SpecStitch == InitStitch /\ [][NextStitch]_vars

---------------------------------------------------------------------------
(* merge_images_vertically on two decoded images, main.py:117-192.         *)

\* the scenario images: 100 wide, 200 high, white, with a 50 x 50 black
\* square at rows 150-199 of the top image and rows 0-49 of the bottom one
ScenarioTop == BandImage(100, 200, 150, 199, 0, 49, Black, White)
ScenarioBottom == BandImage(100, 200, 0, 49, 0, 49, Black, White)

InitMerge ==
    /\ pc = "call"
    /\ search_proportion = PipelineParams[1] /\ step = PipelineParams[2]
    /\ sad_threshold = PipelineParams[3]
    /\ \E pair \in (SmallImages \X SmallImages)
                   \cup {<<TallTop, TallBottom>>, <<ScenarioTop, ScenarioBottom>>} :
           img1 = pair[1] /\ img2 = pair[2]
    /\ Idle

MergeCall ==
    /\ pc = "call"
    /\ det' = Detect(img1, img2, search_proportion, step, sad_threshold)
    /\ overlap_h' = det'.height
    /\ merged' = Stitch(img1, img2, overlap_h')
    /\ pc' = "done"
    /\ UNCHANGED <<img1, img2, search_proportion, step, sad_threshold, target,
                   fit, notes, pending, requests, saved>>

NextMerge == MergeCall

SpecMerge == InitMerge /\ [][NextMerge]_vars

---------------------------------------------------------------------------
(* The page fitter called on its own.                                      *)

\* <<width, height>> of the images fitted: every size up to MaxDim, the
\* extreme aspect ratios, and the stitched scenario
FitSizes ==
    ((1..MaxDim) \X (1..MaxDim))
        \cup {<<1, 1000>>, <<3000, 1>>, <<1, 49>>, <<100, 350>>}

\* the targets: the paper sizes, every size up to MaxDim, and 200 x 500
FitTargets == PAPER_SIZES \cup ((1..MaxDim) \X (1..MaxDim)) \cup {<<200, 500>>}

InitFit ==
    /\ pc = "call"
    /\ \/ target \in PAPER_SIZES
       \/ target \in FitTargets \ PAPER_SIZES
    /\ \E sz \in FitSizes :
           merged = [kind |-> "size", img |-> [w |-> sz[1], h |-> sz[2]]]
    /\ img1 = None /\ img2 = None
    /\ search_proportion = 0 /\ step = 0 /\ sad_threshold = 0
    /\ det = None /\ overlap_h = 0 /\ fit = None
    /\ notes = <<>> /\ pending = 0 /\ requests = 0 /\ saved = FALSE

\* resize_image_to_spec(merged.img, target): it returns the canvas, or
\* image.resize raises for a size below 1 x 1 (main.py:209)
FitCall ==
    /\ pc = "call"
    /\ \E f \in FitOutcomes(merged.img.w, merged.img.h, target[1], target[2]) :
           /\ fit' = f
           /\ pc' = IF ResizeValid(f) THEN "done" ELSE "raised"
    /\ UNCHANGED <<img1, img2, search_proportion, step, sad_threshold, det,
                   overlap_h, merged, target, notes, pending, requests, saved>>

NextFit == FitCall

SpecFit == InitFit /\ [][NextFit]_vars

---------------------------------------------------------------------------
(* ImageCombinerApp.process_images under Tk's main loop, main.py:391-450.  *)
(* The handler runs on the main loop's thread.  pc is "idle" while the     *)
(* main loop waits for events, "merging" and "fitting" while the handler   *)
(* computes, and "dlg_..." while the handler waits in a modal dialog.      *)

\* a one-pixel-wide pair with an exact 5-row overlap
OverlapTop == Image(1, <<<<White>>, <<Grey>>, <<White>>, <<White>>, <<White>>, <<White>>>>)
OverlapBottom == Image(1, <<<<Grey>>, <<White>>, <<White>>, <<White>>, <<White>>, <<Grey>>>>)

\* the pairs of files the user can have selected
GuiImages == UNION {AllImages(1, h, {White, Grey}) : h \in 0..MaxH2}
GuiPairs ==
    (GuiImages \X GuiImages)
        \cup {<<OverlapTop, OverlapBottom>>,
              <<NewImage(2, 1, Grey), NewImage(1, 1, White)>>}

Note(kind, title) == [kind |-> kind, title |-> title]

Init ==
    /\ pc = "idle"
    /\ img1 = None /\ img2 = None
    /\ search_proportion = PipelineParams[1] /\ step = PipelineParams[2]
    /\ sad_threshold = PipelineParams[3]
    /\ Idle

\* The user clicks "Process & Save" (main.py:308).  The click waits in the
\* event queue until the main loop is idle; a modal dialog holds the grab,
\* so the button cannot be clicked while one is open.
Click ==
    /\ pc \in {"idle", "merging", "fitting"}
    /\ pending < MaxPending
    /\ pending' = pending + 1
    /\ UNCHANGED <<pc, img1, img2, search_proportion, step, sad_threshold, det,
                   overlap_h, merged, target, fit, notes, requests, saved>>

\* The main loop takes a click from the queue and calls process_images,
\* which checks the two paths (main.py:392-397)
Dispatch ==
    /\ pc = "idle" /\ pending > 0 /\ requests < MaxRequests
    /\ pending' = pending - 1
    /\ requests' = requests + 1
    /\ img1' = None /\ img2' = None /\ det' = None /\ overlap_h' = 0
    /\ merged' = None /\ target' = <<0, 0>> /\ fit' = None /\ saved' = FALSE
    /\ \E exist \in BOOLEAN :
           IF exist
           THEN pc' = "merging" /\ notes' = <<>>
           ELSE pc' = "dlg_invalid" /\ notes' = <<Note("showerror", "Error")>>
    /\ UNCHANGED <<search_proportion, step, sad_threshold>>

\* merge_images_vertically up to its return or its dialog (main.py:109-192)
MergeStep ==
    /\ pc = "merging"
    /\ \/ /\ pc' = "dlg_open_error"
          /\ notes' = Append(notes, Note("showerror", "Error"))
          /\ UNCHANGED <<img1, img2, det, overlap_h, merged>>
       \/ \E pair \in GuiPairs :
              /\ img1' = pair[1] /\ img2' = pair[2]
              /\ det' = Detect(img1', img2', search_proportion, step, sad_threshold)
              /\ overlap_h' = det'.height
              /\ merged' = Stitch(img1', img2', overlap_h')
              /\ IF merged'.warned
                 THEN /\ pc' = "dlg_warning"
                      /\ notes' = Append(notes, Note("showwarning", "Merge Warning"))
                 ELSE pc' = "fitting" /\ notes' = notes
    /\ UNCHANGED <<search_proportion, step, sad_threshold, target, fit, pending,
                   requests, saved>>

\* the user closes the error dialog of main.py:396 or main.py:113: the
\* handler returns
DismissError ==
    /\ pc \in {"dlg_invalid", "dlg_open_error"}
    /\ pc' = "idle"
    /\ UNCHANGED <<img1, img2, search_proportion, step, sad_threshold, det,
                   overlap_h, merged, target, fit, notes, pending, requests, saved>>

\* the user closes the warning of main.py:160: merge_images_vertically
\* returns the placeholder and the handler goes on
DismissWarning ==
    /\ pc = "dlg_warning"
    /\ pc' = "fitting"
    /\ UNCHANGED <<img1, img2, search_proportion, step, sad_threshold, det,
                   overlap_h, merged, target, fit, notes, pending, requests, saved>>

\* resize_image_to_spec and the opening of the save dialog
\* (main.py:405-423); an exception of image.resize leaves the handler
FitStep ==
    /\ pc = "fitting"
    /\ target' \in PAPER_SIZES
    /\ \E f \in FitOutcomes(merged.img.w, merged.img.h, target'[1], target'[2]) :
           /\ fit' = f
           /\ pc' = IF ResizeValid(f) THEN "dlg_save" ELSE "idle"
    /\ UNCHANGED <<img1, img2, search_proportion, step, sad_threshold, det,
                   overlap_h, merged, notes, pending, requests, saved>>

\* the user cancels the save dialog (main.py:425-427)
SaveCancel ==
    /\ pc = "dlg_save"
    /\ notes' = Append(notes, Note("toast", "Cancelled"))
    /\ pc' = "idle"
    /\ UNCHANGED <<img1, img2, search_proportion, step, sad_threshold, det,
                   overlap_h, merged, target, fit, pending, requests, saved>>

\* the user picks a path and the file is written (main.py:429-446)
SaveDone ==
    /\ pc = "dlg_save"
    /\ saved' = TRUE
    /\ notes' = notes \o <<Note("toast", "Success!"), Note("showinfo", "File Saved")>>
    /\ pc' = "dlg_saved"
    /\ UNCHANGED <<img1, img2, search_proportion, step, sad_threshold, det,
                   overlap_h, merged, target, fit, pending, requests>>

\* the user picks a path and final_image.save raises (main.py:448-449)
SaveFail ==
    /\ pc = "dlg_save"
    /\ notes' = Append(notes, Note("showerror", "Save Error"))
    /\ pc' = "dlg_save_error"
    /\ UNCHANGED <<img1, img2, search_proportion, step, sad_threshold, det,
                   overlap_h, merged, target, fit, pending, requests, saved>>

\* the user closes "File Saved" (main.py:446): the handler returns
DismissSaved ==
    /\ pc = "dlg_saved"
    /\ pc' = "idle"
    /\ UNCHANGED <<img1, img2, search_proportion, step, sad_threshold, det,
                   overlap_h, merged, target, fit, notes, pending, requests, saved>>

\* the user closes "Save Error": the toast of main.py:450 follows
DismissSaveError ==
    /\ pc = "dlg_save_error"
    /\ notes' = Append(notes, Note("toast", "Error"))
    /\ pc' = "idle"
    /\ UNCHANGED <<img1, img2, search_proportion, step, sad_threshold, det,
                   overlap_h, merged, target, fit, pending, requests, saved>>

Next ==
    \/ Click \/ Dispatch \/ MergeStep \/ DismissError \/ DismissWarning
    \/ FitStep \/ SaveCancel \/ SaveDone \/ SaveFail \/ DismissSaved
    \/ DismissSaveError

Spec == Init /\ [][Next]_vars

---------------------------------------------------------------------------
(* Claims about the detector (SpecDetect).                                 *)

\* the overlap heights the search tests
Candidates ==
    IF Min(img1.w, img2.w) = 0 \/ Min(img1.h, img2.h) < step THEN {}
    ELSE {oh \in step..SearchRangeMax(Min(img1.h, img2.h), search_proportion, step) :
              oh % step = 0}

\* the normalised SAD of candidate oh exceeds sad_threshold
ExceedsThreshold(oh) ==
    StripSAD(img1, img2, oh, Min(img1.w, img2.w))
        > sad_threshold * oh * Min(img1.w, img2.w) * NumChannels

\* the minimum normalised SAD over all candidates exceeds sad_threshold
MinSadExceeds == \A oh \in Candidates : ExceedsThreshold(oh)

\* the value the double gate gives for a floor of minSig rows
Gated(minSig) == IF det.best_oh < minSig \/ MinSadExceeds THEN 0 ELSE det.best_oh

\* C1 as stated: the detector returns 0 when the best candidate is below
\* max(step, 5, round(0.01 * maxPossible)) or the minimum normalised SAD
\* exceeds sadThreshold, and the best candidate otherwise
C1_GateRounded ==
    pc = "done" =>
        det.height = Gated(Max(Max(step, 5), (Min(img1.h, img2.h) + 50) \div 100))

\* C1 as amended: the same gate with the 1% floor truncated, minSignificant =
\* max(step, 5, floor(0.01 * maxPossible)); in particular the result is 0
\* whenever the minimum normalised SAD exceeds sadThreshold
C1_DoubleGate ==
    pc = "done" =>
        /\ det.height = Gated(Max(Max(step, 5), Min(img1.h, img2.h) \div 100))
        /\ MinSadExceeds => det.height = 0

\* C1 witness: a best candidate of significant height rejected by the SAD
\* gate alone
C1_Witness ==
    /\ pc = "done" /\ ~det.early /\ det.best_oh >= 5
    /\ MinSadExceeds /\ det.height = 0

\* the bottom k rows of img1 are the top k rows of img2, as when one source
\* image is split with k rows shared
SplitAt(k) ==
    /\ k >= 1 /\ k <= Min(img1.h, img2.h)
    /\ img1.w = img2.w /\ img1.w >= 1
    /\ \A i \in 1..k : img1.px[img1.h - k + i] = img2.px[i]

\* the minimum normalised SAD found is 0
SadZero == ~det.inf /\ det.num = 0

\* C6 as stated: for a split with k shared rows, k below minSignificant, the
\* detector returns a height within step of k and a best normalised SAD of 0
C6_SplitWithinStep ==
    pc = "done" =>
        \A k \in 1..Min(img1.h, img2.h) :
            (SplitAt(k) /\ k < Max(Max(step, 5), Min(img1.h, img2.h) \div 100))
                => (Abs(det.height - k) <= step /\ SadZero)

\* C6 as amended: for a split with k shared rows, k a tested candidate below
\* minSignificant, the best normalised SAD is 0 and the detector returns 0
C6_SplitRejected ==
    pc = "done" =>
        \A k \in Candidates :
            (SplitAt(k) /\ k < Max(Max(step, 5), Min(img1.h, img2.h) \div 100))
                => (det.height = 0 /\ SadZero)

\* C6 witness: a split with 3 shared rows, found by the search and rejected
C6_Witness ==
    /\ pc = "done" /\ step = 1 /\ SplitAt(3) /\ 3 \in Candidates
    /\ det.best_oh = 3 /\ SadZero /\ det.height = 0

---------------------------------------------------------------------------
(* Claims about the stitcher (SpecStitch).                                 *)

\* the composite holds every row of img2, in order, below the rows of img1
BottomInFull ==
    LET x == (merged.img.w - img2.w) \div 2
    IN  \A r \in 1..img2.h : \A c \in 1..img2.w :
            merged.img.px[img1.h + r][x + c] = img2.px[r][c]

\* what C2 says of a stitch with overlap 0
AppendsAll ==
    /\ merged.bottom_h = img2.h
    /\ merged.img.h = img1.h + img2.h
    /\ BottomInFull

Skipped == IF overlap_h > 0 THEN Min(overlap_h, img2.h) ELSE 0

\* the pixel of a part of width w at column c of a canvas row on which the
\* part has left padding left: the part's own pixel, or white fill
PlacedPixel(row, w, left, c) ==
    IF c - left \in 1..w THEN row[c - left] ELSE White

\* the part of width w sits on the canvas with left padding
\* floor((finalWidth - w) / 2); the right padding is equal to it or one more
CentredLeft(finalWidth, w) ==
    LET left  == (finalWidth - w) \div 2
        right == finalWidth - w - left
    IN  left >= 0 /\ (right = left \/ right = left + 1)

\* C11: when both parts have non-zero height, the canvas is
\* max(topPart.width, bottomPart.width) wide and topPart.height +
\* bottomPart.height high, topPart fills rows [0, topPart.height) and
\* bottomPart the rows from topPart.height on, each part has left padding
\* floor((finalWidth - part.width) / 2) with white fill, and the right
\* padding is the left padding or one pixel more
C11_CentredStack ==
    LET bottom_h   == img2.h - Skipped
        finalWidth == Max(img1.w, img2.w)
        leftTop    == (finalWidth - img1.w) \div 2
        leftBottom == (finalWidth - img2.w) \div 2
    IN  (pc = "done" /\ img1.h > 0 /\ bottom_h > 0) =>
            /\ merged.img.w = finalWidth
            /\ merged.img.h = img1.h + bottom_h
            /\ Len(merged.img.px) = img1.h + bottom_h
            /\ \A r \in 1..img1.h :
                   /\ Len(merged.img.px[r]) = finalWidth
                   /\ \A c \in 1..finalWidth :
                          merged.img.px[r][c]
                              = PlacedPixel(img1.px[r], img1.w, leftTop, c)
            /\ \A r \in 1..bottom_h :
                   /\ Len(merged.img.px[img1.h + r]) = finalWidth
                   /\ \A c \in 1..finalWidth :
                          merged.img.px[img1.h + r][c]
                              = PlacedPixel(img2.px[Skipped + r], img2.w,
                                            leftBottom, c)
            /\ CentredLeft(finalWidth, img1.w)
            /\ CentredLeft(finalWidth, img2.w)

\* C11 witness: a bottom part three pixels narrower than the top part,
\* cropped by one row, placed with one white pixel on its left and two on
\* its right
C11_Witness ==
    /\ pc = "done" /\ img1.h > 0 /\ img1.w = 4 /\ img2.w = 1
    /\ overlap_h = 1 /\ img2.h = 2 /\ img2.px[2][1] = Grey
    /\ merged.branch = "combined"
    /\ merged.img.px[img1.h + 1] = <<White, Grey, White, White>>

---------------------------------------------------------------------------
(* Claims about the page fitter (SpecFit).                                 *)

FitEnded == pc \in {"done", "raised"}

\* C4: fit completes and returns a canvas of exactly the target size for
\* every image from 1 x 1000 to 3000 x 1 and every positive target, the
\* scaled size having both dimensions at least 1
C4_FitCompletes ==
    FitEnded =>
        /\ fit.new_width >= 1 /\ fit.new_height >= 1
        /\ pc = "done"
        /\ <<fit.final_w, fit.final_h>> = target

\* C8: the scaled size lies inside the target box: new_width is the target
\* width and new_height at most the target height when image.width /
\* target.width > image.height / target.height, new_height is the target
\* height and new_width at most the target width otherwise; the paste
\* offsets are never negative
C8_FitsInside ==
    FitEnded =>
        /\ merged.img.w * target[2] > merged.img.h * target[1]
               => (fit.new_width = target[1] /\ fit.new_height <= target[2])
        /\ ~(merged.img.w * target[2] > merged.img.h * target[1])
               => (fit.new_height = target[2] /\ fit.new_width <= target[1])
        /\ fit.paste_x >= 0 /\ fit.paste_y >= 0

\* C8 witness: a width-limited image scaled to less than the target height
C8_Witness ==
    /\ pc = "done"
    /\ merged.img.w * target[2] > merged.img.h * target[1]
    /\ fit.new_width = target[1] /\ fit.new_height < target[2]
    /\ fit.paste_y > 0

---------------------------------------------------------------------------
(* Claims about merge_images_vertically (SpecMerge).                       *)

IsScenario ==
    /\ img1.w = 100 /\ img1.h = 200 /\ img2.w = 100 /\ img2.h = 200
    /\ img1 = ScenarioTop /\ img2 = ScenarioBottom

\* C5: on the scenario images the detector, with the pipeline's parameters,
\* returns height 50 with normalised SAD 0, and the stitched canvas is 100
\* wide and 350 high
C5_Scenario ==
    (pc = "done" /\ IsScenario) =>
        /\ det.height = 50 /\ SadZero
        /\ merged.img.w = 100 /\ merged.img.h = 350

\* C12: in merge_images_vertically, for images with h1, h2 >= 1, the
\* overlap height used is 0 or lies in 5..(min(h1, h2) - 1); when it is
\* positive the cropped bottom part keeps at least one row, the branch that
\* returns image 1 for a fully overlapped bottom is not taken, and the
\* composite height is h1 + h2 - overlap, strictly greater than h1
C12_OverlapProper ==
    (pc = "done" /\ img1.h >= 1 /\ img2.h >= 1) =>
        /\ overlap_h = det.height
        /\ \/ overlap_h = 0
           \/ 5 <= overlap_h /\ overlap_h <= Min(img1.h, img2.h) - 1
        /\ merged.branch # "fully_overlapped"
        /\ overlap_h > 0 =>
               /\ merged.bottom_h >= 1
               /\ merged.bottom_h = img2.h - overlap_h
               /\ merged.branch = "combined"
               /\ merged.img.h = img1.h + img2.h - overlap_h
               /\ merged.img.h > img1.h

\* C12 witness: a detected overlap of at least 5 rows, one less than the
\* shorter image, and a composite stitched from both parts
C12_Witness ==
    /\ pc = "done" /\ img1.h >= 1 /\ img2.h >= 1
    /\ overlap_h >= 5 /\ overlap_h = Min(img1.h, img2.h) - 1
    /\ merged.branch = "combined" /\ merged.bottom_h = 1

---------------------------------------------------------------------------
(* Claims about process_images (Spec).                                     *)

\* both parts of the stitch had height zero
BothEmpty == merged # None /\ merged.branch = "both_empty"

\* C7: when both parts have height zero the stitch is a fatal error of the
\* request: the handler does not go on to fit and save an image
C7_EmptyCompositeFatal ==
    BothEmpty => (pc \in {"dlg_warning", "idle"} /\ fit = None /\ ~saved)

\* a request is in flight: process_images has been called and has not
\* returned
InFlight == pc # "idle"

\* C9: a click on Process while a request is in flight is rejected, not
\* queued: no click joins the event queue while a request is in flight
C9_BusyRejected == [][InFlight => pending' <= pending]_vars

\* the request has ended
Ended == pc = "idle" /\ requests > 0

\* C10: every request ends with exactly one notification, and it reports a
\* success exactly when the file was saved
C10_OneOutcome ==
    Ended =>
        /\ Len(notes) = 1
        /\ saved <=> notes[1].title \in {"Success!", "File Saved"}


====
